---------------------------- MODULE Spec2Model ----------------------------
(***************************************************************************)
(* AsyncCell<K, T> of src/src/app.rs: a single-slot keyed cache that a     *)
(* polling loop drives through get_or_update, with the computation run by  *)
(* a tokio runtime and its result handed back over a oneshot channel.      *)
(***************************************************************************)
EXTENDS Integers, FiniteSets, TLC

\* Bounds of the model.
NumKeys == 3      \* distinct keys K the driving loop may request
NumData == 2      \* distinct payloads a computation may produce
MaxChan == 2      \* oneshot channels that can be alive at once
MaxRun  == 3      \* saturation of the per-run spawn counter

Keys    == 1..NumKeys
Data    == 1..NumData
ChanIds == 1..MaxChan

\* Option<_>
None    == [is |-> "None"]
Some(x) == [is |-> "Some", val |-> x]

\* A value T produced by a computation.  src is the key of the call whose
\* future_builder built the computation; data is the payload.
Value   == [src : Keys, data : Data]
NoValue == [src |-> 0, data |-> 0]

\* State of one oneshot channel together with the task that owns its sender.
\*   free    : never allocated
\*   pending : task spawned, sender alive, nothing sent yet
\*   ready   : sender.send(value) done, value not yet received
\*   closed  : no value can arrive (sender dropped unsent, or value taken)
FreeChan       == [st |-> "free",    src |-> 0, val |-> NoValue]
PendingChan(k) == [st |-> "pending", src |-> k, val |-> NoValue]
ReadyChan(v)   == [st |-> "ready",   src |-> v.src, val |-> v]
ClosedChan(k)  == [st |-> "closed",  src |-> k, val |-> NoValue]

\* Result<T, TryRecvError>
Ok(v)  == [ok |-> TRUE,  value |-> v,       err |-> "-"]
Err(e) == [ok |-> FALSE, value |-> NoValue, err |-> e]
RecvResults == {Ok(v) : v \in Value} \cup {Err("Empty"), Err("Closed")}

VARIABLES
    selector,     \* TemplateApp.block_id_selector, parsed into the key asked
    cache,        \* AsyncCell.cache    : Option<(K, T)>
    receiver,     \* AsyncCell.receiver : Option<(K, oneshot::Receiver<T>)>
    chan,         \* the oneshot channels and the spawned tasks behind them
    ret,          \* the last get_or_update call: key, CellState, factory calls
    runSpawns,    \* computations spawned in the current run of same-key calls
                  \* during which no result was received (saturates at MaxRun)
    superseded,   \* the current run of same-key calls began while a handle
                  \* for another key was in flight
    gotResult,    \* the last get_or_update call took a result off the channel
    lastRecv      \* the computation (its key, its value) whose result the
                  \* cell received most recently

vars == <<selector, cache, receiver, chan, ret, runSpawns, superseded,
         gotResult, lastRecv>>

\* CellState<&T> as seen by the caller of get_or_update(key, _);
\* built counts the invocations of future_builder in that call.
Running(key, n)  == [key |-> key, kind |-> "Running", value |-> NoValue, built |-> n]
Returned(key, v, n) == [key |-> key, kind |-> "Value", value |-> v, built |-> n]
NoCall           == [key |-> 0, kind |-> "none", value |-> NoValue, built |-> 0]

Init ==
    /\ selector \in Keys
    /\ cache = None
    /\ receiver = None
    /\ chan = [c \in ChanIds |-> FreeChan]
    /\ ret = NoCall
    /\ runSpawns = 0
    /\ superseded = FALSE
    /\ gotResult = FALSE
    /\ lastRecv = None

\* Lines 59-63: drop the cached pair when its key differs from the key asked.
InvalidateCache_never(slot, key) ==
    slot

InvalidateCache(slot, key) ==
    IF slot # None /\ slot.val.key # key THEN None ELSE slot

\* Line 67: oneshot::Receiver::try_recv never waits; r is what it returns.
blocking_recv(ch, r) ==
    CASE ch.st = "ready"   -> r = Ok(ch.val)
      [] ch.st = "pending" -> FALSE
      [] OTHER             -> r = Err("Closed")

try_recv(ch, r) ==
    CASE ch.st = "ready"   -> r = Ok(ch.val)
      [] ch.st = "pending" -> r = Err("Empty")
      [] OTHER             -> r = Err("Closed")

\* Lines 65 and 73: the None arm of match self.receiver.take() starts a new
\* computation; the requested key plays no part in the choice.
StartsNew_on_key_mismatch(rcv, key) ==
    rcv = None \/ rcv.val.key # key

StartsNew(rcv, key) ==
    rcv = None

\* Lines 65-71: the handle is taken, and put back only when nothing was
\* received.
HandleAfterPoll_not_restored(h, r) ==
    None

HandleAfterPoll_not_taken(h, r) ==
    Some(h)

HandleAfterPoll(h, r) ==
    IF r.ok THEN None ELSE Some(h)

\* Line 68: a received value is stored under the handle's key.
CacheAfterPoll_requested_key(slot, h, r) ==
    IF r.ok THEN Some([key |-> selector, value |-> r.value]) ELSE slot

CacheAfterPoll_keep_existing(slot, h, r) ==
    IF r.ok /\ slot = None THEN Some([key |-> h.key, value |-> r.value]) ELSE slot

CacheAfterPoll(slot, h, r) ==
    IF r.ok THEN Some([key |-> h.key, value |-> r.value]) ELSE slot

\* Lines 82-86.
CellState(slot, key, n) ==
    IF slot # None THEN Returned(key, slot.val.value, n) ELSE Running(key, n)

\* A channel id that no live task and no handle uses.
Unused(c) ==
    /\ chan[c].st \in {"free", "closed"}
    /\ IF receiver = None THEN TRUE ELSE receiver.val.rx # c

\* Ghost bookkeeping of a call: received tells whether the call took a result.
RunAfter(key, received, n) ==
    IF received THEN 0
    ELSE LET base == IF key = ret.key THEN runSpawns ELSE 0
         IN  IF base + n > MaxRun THEN MaxRun ELSE base + n

SupersededAfter(key) ==
    IF key = ret.key THEN superseded
    ELSE receiver # None /\ receiver.val.key # key
            /\ chan[receiver.val.rx].st \in {"pending", "ready"}

\* Ghost: the computation behind channel ch, once its result r is received.
LastRecvAfter(ch, r) ==
    IF r.ok THEN Some([key |-> ch.src, value |-> r.value]) ELSE lastRecv

\* Lines 66-72: poll the in-flight handle.
Poll(key, slot) ==
    LET h == receiver.val IN
    \E r \in RecvResults :
        /\ try_recv(chan[h.rx], r)
        /\ cache' = CacheAfterPoll(slot, h, r)
        /\ receiver' = HandleAfterPoll(h, r)
        /\ chan' = IF r.ok THEN [chan EXCEPT ![h.rx] = ClosedChan(@.src)] ELSE chan
        /\ ret' = CellState(cache', key, 0)
        /\ runSpawns' = RunAfter(key, r.ok, 0)
        /\ gotResult' = r.ok
        /\ lastRecv' = LastRecvAfter(chan[h.rx], r)

\* Lines 73-79: build the future, spawn it on the runtime with a fresh
\* channel and keep the receiving end tagged with the requested key.
Spawn(key, slot) ==
    \E c \in ChanIds :
        /\ Unused(c)
        /\ \A d \in ChanIds : Unused(d) => c <= d
        /\ chan' = [chan EXCEPT ![c] = PendingChan(key)]
        /\ receiver' = Some([key |-> key, rx |-> c])
        /\ cache' = slot
        /\ ret' = CellState(cache', key, 1)
        /\ runSpawns' = RunAfter(key, FALSE, 1)
        /\ gotResult' = FALSE
        /\ lastRecv' = lastRecv

\* Lines 54-87.
get_or_update(key) ==
    LET slot == InvalidateCache(cache, key) IN
    /\ IF StartsNew(receiver, key) THEN Spawn(key, slot) ELSE Poll(key, slot)
    /\ superseded' = SupersededAfter(key)

\* Line 77: the spawned task finishes fut.await and sends the value.
TaskCompletes(c, d) ==
    /\ chan[c].st = "pending"
    /\ chan' = [chan EXCEPT ![c] = ReadyChan([src |-> @.src, data |-> d])]
    /\ UNCHANGED <<selector, cache, receiver, ret, runSpawns, superseded,
                 gotResult, lastRecv>>

\* Line 77: the spawned task ends without sending (the future panics or the
\* runtime drops the task), which drops the sender.
SenderDropped(c) ==
    /\ chan[c].st = "pending"
    /\ chan' = [chan EXCEPT ![c] = ClosedChan(@.src)]
    /\ UNCHANGED <<selector, cache, receiver, ret, runSpawns, superseded,
                 gotResult, lastRecv>>

\* Line 151: the user edits the text field that names the key.
EditSelector(k) ==
    /\ k # selector
    /\ selector' = k
    /\ UNCHANGED <<cache, receiver, chan, ret, runSpawns, superseded,
                 gotResult, lastRecv>>

\* Lines 153-158: each repaint asks the cell for the key now selected.
update ==
    /\ get_or_update(selector)
    /\ UNCHANGED selector

Call     == update
Edit     == \E k \in Keys : EditSelector(k)
Complete == \E c \in ChanIds, d \in Data : TaskCompletes(c, d)
Die      == \E c \in ChanIds : SenderDropped(c)

Next == Call \/ Edit \/ Complete \/ Die

Spec == Init /\ [][Next]_vars

\* The executor delivers every result and the driving loop keeps repainting;
\* nothing obliges the user to edit the selector.
LiveNext == Call \/ Edit \/ Complete

LiveSpec == Init /\ [][LiveNext]_vars /\ WF_vars(Call) /\ WF_vars(Complete)

TypeOK ==
    /\ selector \in Keys
    /\ cache \in {None} \cup {Some(p) : p \in [key : Keys, value : Value]}
    /\ receiver \in {None} \cup {Some(h) : h \in [key : Keys, rx : ChanIds]}
    /\ ret.kind \in {"none", "Running", "Value"}
    /\ runSpawns \in 0..MaxRun
    /\ superseded \in BOOLEAN
    /\ gotResult \in BOOLEAN
    /\ lastRecv \in {None} \cup {Some(p) : p \in [key : Keys, value : Value]}

\* Computations submitted to the executor whose result the cell has not
\* received yet.
Outstanding == {c \in ChanIds : chan[c].st \in {"pending", "ready"}}

HitsCache(k)  == cache # None /\ cache.val.key = k
PollsOwn(k)   == receiver # None /\ receiver.val.key = k
HandleDead    == receiver # None /\ chan[receiver.val.rx].st = "closed"

----------------------------------------------------------------------------
\* C1: whenever get_or_update(k, _) returns Value(v), v was produced by a
\* computation started for k; a result started for another key is never
\* returned to a query for k.
C1_OnlyOwnKeyResult ==
    ret.kind = "Value" => ret.value.src = ret.key

\* C2: in a run of consecutive calls with the same key during which the cell
\* received no result, at most one computation is spawned.
C2_SingleFlight ==
    runSpawns <= 1

\* C2 witness: a later call of such a run polled the handle that an earlier
\* call of the run spawned, and built nothing.
C2_Witness ==
    /\ runSpawns = 1
    /\ ret.kind = "Running" /\ ret.built = 0
    /\ receiver # None /\ receiver.val.key = ret.key
    /\ chan[receiver.val.rx].st = "pending"

\* C3: a call that hits the cache for k, or that polls an in-flight handle
\* for k, invokes the factory zero times and submits nothing.
C3_LazyFactory ==
    [][\A k \in Keys :
        (get_or_update(k) /\ (HitsCache(k) \/ PollsOwn(k)))
            => (ret'.built = 0 /\ Outstanding' \subseteq Outstanding)]_vars

\* C4: once get_or_update(k, _) has returned the value v of a computation
\* for k, the next call with k (no other key in between) returns Value(v),
\* the very same value.
C4_CacheStable ==
    [][\A k \in Keys :
        (get_or_update(k) /\ ret.kind = "Value" /\ ret.key = k
                          /\ ret.value.src = k)
            => (ret'.kind = "Value" /\ ret'.value = ret.value)]_vars

\* C5: when the cache holds a value for k1, a call with k2 # k1 drops the
\* slot and returns Running, never a value of k1.
C5_InvalidationOnKeyChange ==
    [][\A k \in Keys :
        (get_or_update(k) /\ cache # None /\ cache.val.key # k)
            => ret'.kind = "Running"]_vars

\* C6: at most one submitted computation is outstanding at any time.
C6_AtMostOneOutstanding ==
    Cardinality(Outstanding) <= 1

\* C6 witness: a call asked for another key than the one in flight, and the
\* in-flight computation is still the only one.
C6_Witness ==
    /\ receiver # None /\ ret.kind = "Running"
    /\ ret.key # receiver.val.key
    /\ Outstanding = {receiver.val.rx}

\* C7: if from some point on the driving loop asks for the same key k on
\* every tick, and every submitted computation delivers, then calls keep
\* returning, after that point, a Value produced by a computation started
\* for k.
C7_EventualValue ==
    \A k \in Keys :
        <>[](selector = k)
            => []<>(ret.key = k /\ ret.kind = "Value" /\ ret.value.src = k)

\* C7 witness: the run of calls for ret.key began while a computation for an
\* older key was in flight, and a call of the run returned its own value.
C7_Witness ==
    /\ superseded
    /\ ret.kind = "Value" /\ ret.value.src = ret.key

\* C8 as stated: a call whose key matches neither the cache slot's key nor
\* the handle's key (or made with no handle at all) creates a handle for the
\* requested key and schedules one computation.
C8_HandleOnNewKey ==
    [][\A k \in Keys :
        (get_or_update(k) /\ (receiver = None \/ (~HitsCache(k) /\ ~PollsOwn(k))))
            => (receiver' # None /\ receiver'.val.key = k /\ ret'.built = 1)]_vars

\* C8 amended: a call made while there is no in-flight handle creates a
\* handle for the requested key and schedules exactly one computation; a
\* call made while a handle exists, whatever its key, schedules none.
C8_HandleWhenNoHandle ==
    [][\A k \in Keys :
        get_or_update(k) =>
            IF receiver = None
            THEN /\ receiver' # None /\ receiver'.val.key = k
                 /\ chan'[receiver'.val.rx] = PendingChan(k)
                 /\ Outstanding' = Outstanding \cup {receiver'.val.rx}
                 /\ receiver'.val.rx \notin Outstanding
                 /\ ret'.built = 1
            ELSE /\ ret'.built = 0
                 /\ Outstanding' \subseteq Outstanding]_vars

\* C8 witness: a call for a key that the cache does not hold has just
\* created the handle for that key.
C8_Witness ==
    /\ ret.built = 1 /\ ret.kind = "Running"
    /\ receiver # None /\ receiver.val.key = ret.key
    /\ chan[receiver.val.rx] = PendingChan(ret.key)

\* C9: in every reachable state a call with any key can be taken as one
\* step of the polling thread, with no step of the executor needed first.
C9_NonBlocking ==
    \A k \in Keys : ENABLED get_or_update(k)

\* C9 witness: a call returned Running while its computation has not sent.
C9_Witness ==
    /\ ret.kind = "Running" /\ ret.built = 0
    /\ receiver # None /\ chan[receiver.val.rx].st = "pending"

\* C10: when the channel of the in-flight handle is closed with no value, a
\* call does not keep the dead handle in place and report Running.
C10_DeadHandleNotKept ==
    [][\A k \in Keys :
        (get_or_update(k) /\ HandleDead)
            => ~(receiver' = receiver /\ ret'.kind = "Running")]_vars

\* Line 181: T is a Result in the application; payload 1 stands for Err(_).
IsFailure(v) == v.data = 1

\* C11: a failure produced by the computation for k is cached under k and
\* returned by get_or_update(k, _) as produced, and while k stays the key
\* asked the cell submits no further computation for k (no retry).
C11_FailureOpaqueNoRetry ==
    [][\A k \in Keys :
        /\ (get_or_update(k) /\ PollsOwn(k)
                /\ chan[receiver.val.rx].st = "ready"
                /\ IsFailure(chan[receiver.val.rx].val))
             => /\ cache' = Some([key |-> k, value |-> chan[receiver.val.rx].val])
                /\ ret' = Returned(k, chan[receiver.val.rx].val, 0)
        /\ (get_or_update(k) /\ HitsCache(k) /\ cache.val.value.src = k
                /\ IsFailure(cache.val.value))
             => ret'.built = 0]_vars

HandleReady   == receiver # None /\ chan[receiver.val.rx].st = "ready"
HandlePending == receiver # None /\ chan[receiver.val.rx].st = "pending"

\* C12: the call that finds the handle's result ready stores (handle key,
\* result) as the cache slot and clears the handle in that same call; a
\* slot is only ever filled by such a call, which leaves the channel spent,
\* so each result is installed at most once.
C12_PromotionOnce ==
    [][/\ \A k \in Keys :
            (get_or_update(k) /\ HandleReady)
              => /\ cache' = Some([key   |-> receiver.val.key,
                                   value |-> chan[receiver.val.rx].val])
                 /\ receiver' = None
                 /\ chan'[receiver.val.rx].st = "closed"
       /\ (cache' # cache /\ cache' # None)
              => /\ HandleReady
                 /\ cache'.val.value = chan[receiver.val.rx].val
                 /\ chan'[receiver.val.rx].st = "closed"
                 /\ \A c \in ChanIds : chan'[c].st = "ready" => chan[c].st = "ready"]_vars

\* C12 witness: a call has just promoted a result; the handle is gone and
\* the channel it came over is spent.
C12_Witness ==
    /\ gotResult /\ receiver = None
    /\ cache # None /\ cache = lastRecv
    /\ ret.kind = "Value" /\ ret.value = cache.val.value
    /\ \A c \in ChanIds : chan[c].st # "ready"

\* C13: a call that finds the handle's result not ready leaves the handle
\* and its channel as they were, whatever key it asked for; the pending
\* computation is not cancelled.
C13_NoCancellation ==
    [][\A k \in Keys :
        (get_or_update(k) /\ HandlePending)
            => (receiver' = receiver /\ chan' = chan /\ ret'.built = 0)]_vars

\* C13 witness: a call asked for a key other than the pending handle's, with
\* nothing cached, and the handle still waits for its own computation.
C13_Witness ==
    /\ HandlePending /\ ~gotResult
    /\ cache = None /\ superseded
    /\ ret.kind = "Running" /\ ret.built = 0
    /\ ret.key # receiver.val.key
    /\ chan[receiver.val.rx] = PendingChan(receiver.val.key)

\* C14: the cache slot, when present, is the (key, value) pair of the
\* computation whose result the cell received most recently.
C14_SlotIsLatestReceived ==
    cache # None => cache = lastRecv

\* C14 witness: a newer computation has completed but its result has not
\* been received yet; the slot still holds the last received pair.
C14_Witness ==
    /\ cache # None /\ cache = lastRecv
    /\ HandleReady /\ ~gotResult
    /\ chan[receiver.val.rx].val # cache.val.value

\* C15: every pair (k, v) in the cache slot, and every handle, carries the
\* key of the call whose factory built the computation that produced v.
C15_KeyValuePairing ==
    /\ cache # None => cache.val.value.src = cache.val.key
    /\ receiver # None => chan[receiver.val.rx].src = receiver.val.key

\* C15 witness: a result started for one key was installed while another
\* key was being asked, and it sits in the slot under its own key.
C15_Witness ==
    /\ gotResult /\ cache # None
    /\ ret.kind = "Value" /\ ret.key # cache.val.key
    /\ cache.val.value.src = cache.val.key

\* C16: between calls, a cache slot and an in-flight handle that are both
\* present carry the same key.
C16_SlotAndHandleSameKey ==
    (cache # None /\ receiver # None) => cache.val.key = receiver.val.key

\* C16 witness: a cached value and an in-flight handle coexist.
C16_Witness ==
    /\ cache # None /\ receiver # None
    /\ chan[receiver.val.rx].st \in {"pending", "ready"}
    /\ cache.val.key = receiver.val.key

\* C17: once a call has returned, the cell never has neither slot nor
\* handle; a call that returned Running left a handle; and the handle is
\* absent only right after a call that received a result.
C17_NeverEmptyAfterCall ==
    ret.kind # "none" =>
        /\ ~(cache = None /\ receiver = None)
        /\ ret.kind = "Running" => receiver # None
        /\ receiver = None => gotResult

\* C17 witness: a call received a result and left the cell with a slot and
\* no handle, and the user has since picked another key.
C17_Witness ==
    /\ ret.kind = "Value" /\ gotResult
    /\ receiver = None /\ cache # None
    /\ Outstanding = {}
    /\ selector # cache.val.key /\ ret.key = cache.val.key

=============================================================================
